---- MODULE Spec2Model ----
(***************************************************************************)
(* Model of the pruning orchestrator of crates/prune/src/pruner.rs:        *)
(* Pruner::run, Pruner::prune_segments, Pruner::snapshot_segments and      *)
(* Pruner::is_pruning_needed, driven against a store that holds, for each  *)
(* prune segment, its rows and its prune checkpoint.                       *)
(***************************************************************************)
EXTENDS Integers, Sequences, FiniteSets, TLC

\* ---------------------------------------------------------------- bounds
\* Highest tip block number handed to run / is_pruning_needed.
MaxTip == 3
\* Highest configured Pruner::delete_limit (rows per block).
MaxDeleteLimit == 2
\* Highest configured Pruner::prune_max_blocks_per_run.
MaxBlocksPerRun == 2
\* Highest configured Pruner::min_block_interval.
MaxInterval == 2
\* Largest advance of the tip between two runs of a run-after-run schedule.
MaxStep == 2

\* ---------------------------------------------------------------- Option
None == <<>>
Some(x) == <<x>>
IsSome(o) == o # <<>>
Unwrap(o) == o[1]

Min(a, b) == IF a <= b THEN a ELSE b
\* u64::saturating_sub / usize::saturating_sub
saturating_sub(a, b) == IF a >= b THEN a - b ELSE 0

\* ---------------------------------------------------------------- types
\* The prune segments (categories) of the model; the three of them are the
\* ones snapshot_segments() can synthesize a segment for.
PruneSegment == {"Headers", "Transactions", "Receipts"}

Full == [kind |-> "Full", n |-> 0]
Distance(n) == [kind |-> "Distance", n |-> n]
\* PruneMode::before_inclusive(to_block): keep-before-or-at(to_block)
before_inclusive(to_block) == [kind |-> "BeforeInclusive", n |-> to_block]
\* A prune mode the segment does not support (prune_target_block errs on it).
Unsupported == [kind |-> "Unsupported", n |-> 0]

\* A Box<dyn Segment>: its segment() and its mode().
Seg(s, m) == [segment |-> s, mode |-> m]

\* PruneProgress::from_done
from_done(done) == IF done THEN "Finished" ELSE "HasMoreData"

\* ---------------------------------------------------------------- state
VARIABLES
    cfg,                        \* construction parameters (never change)
    previous_tip_block_number,  \* Option<BlockNumber>
    db,                         \* durable store: prune checkpoints and rows
    last,                       \* what the latest run did and returned
    gate,                       \* the latest is_pruning_needed call
    op,                         \* the operation that produced this state
    highest_target              \* highest target computed per segment so far
\* last, gate and op observe the latest call only: a call of one operation
\* clears the observation of the other.

vars == <<cfg, previous_tip_block_number, db, last, gate, op, highest_target>>

\* The rows of a segment: one row per block 0..MaxTip until pruned.
Blocks == 0..MaxTip

\* ------------------------------------------------ retention policy target
\* PruneMode::prune_target_block(tip, segment): Ok(Some((to_block, mode))),
\* Ok(None) or Err(configuration).
prune_target_block(mode, tip, segment) ==
    CASE mode.kind = "Full" -> [err |-> FALSE, val |-> Some(<<tip, mode>>)]
      [] mode.kind = "Distance" ->
            IF tip > mode.n
            THEN [err |-> FALSE, val |-> Some(<<tip - mode.n, mode>>)]
            ELSE [err |-> FALSE, val |-> None]
      [] mode.kind = "BeforeInclusive" ->
            [err |-> FALSE, val |-> Some(<<mode.n, mode>>)]
      [] OTHER -> [err |-> TRUE, val |-> None]

\* ------------------------------------------------------- Segment::prune
\* A segment honouring its contract: it resumes after previous_checkpoint,
\* deletes the rows of the blocks up to to_block in ascending order, at most
\* delete_limit of them, and reports the last block it reached.
\* First block of the range to prune.
next_block(input) ==
    IF IsSome(input.previous_checkpoint)
    THEN Unwrap(input.previous_checkpoint).block_number + 1
    ELSE 0

\* Last block pruned by this call (meaningful when the range is not empty).
last_pruned_block(input) ==
    next_block(input) + Min(input.to_block - next_block(input) + 1, input.delete_limit) - 1

segment_prune(input) ==
    IF next_block(input) > input.to_block
    THEN [pruned |-> 0, done |-> TRUE, checkpoint |-> None]
    ELSE [pruned |-> last_pruned_block(input) - next_block(input) + 1,
          done |-> last_pruned_block(input) = input.to_block,
          checkpoint |-> Some([block_number |-> last_pruned_block(input)])]

\* The rows left in the segment's table after that call.
segment_prune_rows(rows, input) ==
    IF next_block(input) > input.to_block
    THEN rows
    ELSE rows \ (next_block(input)..last_pruned_block(input))

\* PruneOutputCheckpoint::as_prune_checkpoint(prune_mode)
as_prune_checkpoint(checkpoint, prune_mode) ==
    [block_number |-> checkpoint.block_number, prune_mode |-> prune_mode]

\* ------------------------------------------------ Pruner::snapshot_segments
\* The segment for one snapshot segment, if a highest snapshot block exists.
snapshot_segment(highest, s) ==
    IF IsSome(highest[s]) THEN <<Seg(s, Some(before_inclusive(Unwrap(highest[s]))))>> ELSE <<>>

\* snapshot_segments that pushes the three segments in the opposite order.
snapshot_segments_reversed(snapshot_provider) ==
    IF IsSome(snapshot_provider)
    THEN snapshot_segment(Unwrap(snapshot_provider), "Receipts")
         \o snapshot_segment(Unwrap(snapshot_provider), "Transactions")
         \o snapshot_segment(Unwrap(snapshot_provider), "Headers")
    ELSE <<>>

snapshot_segments(snapshot_provider) ==
    IF IsSome(snapshot_provider)
    THEN snapshot_segment(Unwrap(snapshot_provider), "Headers")
         \o snapshot_segment(Unwrap(snapshot_provider), "Transactions")
         \o snapshot_segment(Unwrap(snapshot_provider), "Receipts")
    ELSE <<>>

\* ------------------------------------------------- Pruner::prune_segments
\* An injected failure: the call that fails and the position of the segment
\* (in the chained list) it fails for.
NoFault == [at |-> "none", idx |-> 0]

\* BTreeMap::insert
stats_insert(stats, k, v) ==
    [s \in (DOMAIN stats) \cup {k} |-> IF s = k THEN v ELSE stats[s]]

\* PruneInput that hands the segment the tip in place of its target block.
PruneInput_to_tip(previous_checkpoint, to_block, delete_limit, tip_block_number) ==
    [previous_checkpoint |-> previous_checkpoint,
     to_block |-> tip_block_number,
     delete_limit |-> delete_limit]

\* PruneInput { previous_checkpoint, to_block, delete_limit }
PruneInput(previous_checkpoint, to_block, delete_limit, tip_block_number) ==
    [previous_checkpoint |-> previous_checkpoint,
     to_block |-> to_block,
     delete_limit |-> delete_limit]

\* remaining_limit that does not charge the segment's deletions to the budget.
remaining_limit_unreduced(delete_limit, pruned) == delete_limit

\* delete_limit = delete_limit.saturating_sub(output.pruned)
remaining_limit(delete_limit, pruned) == saturating_sub(delete_limit, pruned)

\* accumulate_done with || in place of &&.
accumulate_done_or(done, output_done) == done \/ output_done

\* done = done && output.done
accumulate_done(done, output_done) == done /\ output_done

\* InitialDone with the accumulator started at false.
InitialDone_false == FALSE

\* Initial value of the `done` accumulator of the loop.
InitialDone == TRUE

\* skip_segment that records a finished, zero-row statistics entry for the
\* segment it skips.
skip_segment_recorded(acc, segment) ==
    [acc EXCEPT !.stats = stats_insert(@, segment.segment, <<from_done(TRUE), 0>>)]

\* The else branch of the loop body: a segment without mode or without
\* target block is logged and nothing else happens.
skip_segment(acc, segment) == acc

\* budget_exhausted that never stops the loop.
budget_exhausted_never(delete_limit) == FALSE

\* if delete_limit == 0 { break }
budget_exhausted(delete_limit) == delete_limit = 0

\* saved_checkpoint that never saves the checkpoint a segment returns.
saved_checkpoint_never(output, prune_mode, to_block) == None

\* saved_checkpoint that writes the target block as checkpoint when the
\* segment returns none.
saved_checkpoint_always(output, prune_mode, to_block) ==
    IF IsSome(output.checkpoint)
    THEN Some(as_prune_checkpoint(Unwrap(output.checkpoint), prune_mode))
    ELSE Some([block_number |-> to_block, prune_mode |-> prune_mode])

\* if let Some(checkpoint) = output.checkpoint { save_checkpoint(...) }: the
\* checkpoint handed to save_checkpoint, if any.
saved_checkpoint(output, prune_mode, to_block) ==
    IF IsSome(output.checkpoint)
    THEN Some(as_prune_checkpoint(Unwrap(output.checkpoint), prune_mode))
    ELSE None

\* get_prune_checkpoint that reads the checkpoint the store held before the
\* run's transaction.
get_prune_checkpoint_durable(tx, segment) == db.checkpoints[segment]

\* provider.get_prune_checkpoint(segment): read inside the run's transaction.
get_prune_checkpoint(tx, segment) == tx.checkpoints[segment]

\* The loop `for segment in segments` from its i-th segment on, with the
\* loop's variables in acc; acc is evaluated once per iteration.
RECURSIVE prune_segments_loop(_, _, _, _, _)
RECURSIVE loop_iteration(_, _, _, _, _)
prune_segments_loop(segments, i, acc, tip_block_number, fault) ==
    CHOOSE r \in {loop_iteration(segments, i, a, tip_block_number, fault) : a \in {acc}} :
        TRUE

\* One iteration of the loop, followed by the remaining ones.
loop_iteration(segments, i, acc, tip_block_number, fault) ==
    IF i > Len(segments) \/ budget_exhausted(acc.delete_limit)
    THEN acc
    ELSE
    LET segment == segments[i]
        target == IF IsSome(segment.mode)
                  THEN prune_target_block(Unwrap(segment.mode), tip_block_number, segment.segment)
                  ELSE [err |-> FALSE, val |-> None]
    IN
    IF target.err
    THEN [acc EXCEPT !.err = "prune_target_block"]
    ELSE IF ~IsSome(target.val)
    THEN prune_segments_loop(segments, i + 1, skip_segment(acc, segment),
                             tip_block_number, fault)
    ELSE
    LET to_block == Unwrap(target.val)[1]
        prune_mode == Unwrap(target.val)[2]
        input == PruneInput(get_prune_checkpoint(acc.tx, segment.segment), to_block,
                            acc.delete_limit, tip_block_number)
        output == segment_prune(input)
        pruned_tx == [acc.tx EXCEPT !.rows[segment.segment] =
                          segment_prune_rows(@, input)]
        saved == saved_checkpoint(output, prune_mode, to_block)
        saved_tx == IF IsSome(saved)
                    THEN [pruned_tx EXCEPT !.checkpoints[segment.segment] = saved]
                    ELSE pruned_tx
        call == [idx |-> i, segment |-> segment.segment, target |-> to_block,
                 input |-> input, output |-> output, saved |-> saved]
    IN
    IF fault = [at |-> "get_prune_checkpoint", idx |-> i]
    THEN [acc EXCEPT !.err = "get_prune_checkpoint"]
    ELSE IF fault = [at |-> "prune", idx |-> i]
    THEN [acc EXCEPT !.err = "prune"]
    ELSE IF IsSome(saved) /\ fault = [at |-> "save_checkpoint", idx |-> i]
    THEN [acc EXCEPT !.err = "save_checkpoint", !.tx = pruned_tx]
    ELSE prune_segments_loop(segments, i + 1,
            [tx |-> saved_tx,
             delete_limit |-> remaining_limit(acc.delete_limit, output.pruned),
             done |-> accumulate_done(acc.done, output.done),
             stats |-> stats_insert(acc.stats, segment.segment,
                                    <<from_done(output.done), output.pruned>>),
             calls |-> Append(acc.calls, call),
             err |-> "none"],
            tip_block_number, fault)

prune_segments(provider, tip_block_number, delete_limit, fault) ==
    prune_segments_loop(snapshot_segments(cfg.snapshot_provider) \o cfg.segments, 1,
        [tx |-> provider, delete_limit |-> delete_limit, done |-> InitialDone,
         stats |-> <<>>, calls |-> <<>>, err |-> "none"],
        tip_block_number, fault)

\* ------------------------------------------------------------ Pruner::run
\* blocks_since_last_run without the cap at prune_max_blocks_per_run.
blocks_since_last_run_uncapped(previous_tip, tip_block_number, prune_max_blocks_per_run) ==
    IF IsSome(previous_tip)
    THEN saturating_sub(tip_block_number, Unwrap(previous_tip))
    ELSE 1

\* blocks_since_last_run with the distance between the tips in place of the
\* saturating subtraction.
blocks_since_last_run_distance(previous_tip, tip_block_number, prune_max_blocks_per_run) ==
    Min(IF IsSome(previous_tip)
        THEN IF tip_block_number >= Unwrap(previous_tip)
             THEN tip_block_number - Unwrap(previous_tip)
             ELSE Unwrap(previous_tip) - tip_block_number
        ELSE 1,
        prune_max_blocks_per_run)

\* blocks_since_last_run
blocks_since_last_run(previous_tip, tip_block_number, prune_max_blocks_per_run) ==
    Min(IF IsSome(previous_tip)
        THEN saturating_sub(tip_block_number, Unwrap(previous_tip))
        ELSE 1,
        prune_max_blocks_per_run)

\* rollback that keeps what the dropped transaction wrote.
rollback_partial(durable, tx) == tx

\* What the store holds after a run whose transaction `tx` was dropped
\* without commit.
rollback(durable, tx) == durable

\* previous_tip_on_error that records the tip of the failed run.
previous_tip_on_error_recorded(previous_tip, tip_block_number) == Some(tip_block_number)

\* previous_tip_block_number after a run that returned an error.
previous_tip_on_error(previous_tip, tip_block_number) == previous_tip

NoRun ==
    [tip |-> 0, previous_tip |-> None, result |-> "none", error |-> "none",
     delete_limit |-> 0, remaining |-> 0, tx_opened |-> FALSE, calls |-> <<>>,
     stats |-> <<>>, events |-> <<>>]

\* previous_tip_on_success that records the tip only when pruning finished.
previous_tip_on_success_finished(previous_tip, tip_block_number, progress) ==
    IF progress = "Finished" THEN Some(tip_block_number) ELSE previous_tip

\* previous_tip_block_number after a run that committed.
previous_tip_on_success(previous_tip, tip_block_number, progress) ==
    Some(tip_block_number)

\* GenesisRun that notifies the listeners before it returns.
GenesisRun_notifies(previous_tip) ==
    [NoRun EXCEPT !.result = "Finished", !.previous_tip = previous_tip,
                  !.events = <<[tip_block_number |-> 0, stats |-> <<>>]>>]

\* What run(0) did: nothing, and it returned Finished.
GenesisRun(previous_tip) ==
    [NoRun EXCEPT !.result = "Finished", !.previous_tip = previous_tip]

\* Failed that notifies the listeners of the run although it returns an error.
Failed_notifies(tip_block_number, previous_tip, delete_limit, error, r) ==
    [tip |-> tip_block_number, previous_tip |-> previous_tip,
     result |-> "error", error |-> error,
     delete_limit |-> delete_limit, remaining |-> r.delete_limit,
     tx_opened |-> TRUE, calls |-> r.calls, stats |-> r.stats,
     events |-> <<[tip_block_number |-> tip_block_number, stats |-> r.stats]>>]

\* The highest target block computed for each segment by the committed runs.
highest_targets(highest, calls) ==
    [s \in PruneSegment |->
        LET targets == {calls[i].target :
                            i \in {j \in 1..Len(calls) : calls[j].segment = s}}
                       \cup (IF IsSome(highest[s]) THEN {Unwrap(highest[s])} ELSE {})
        IN IF targets = {} THEN None
           ELSE Some(CHOOSE t \in targets : \A u \in targets : u <= t)]

\* What a run that returned `error` did.
Failed(tip_block_number, previous_tip, delete_limit, error, r) ==
    [tip |-> tip_block_number, previous_tip |-> previous_tip,
     result |-> "error", error |-> error,
     delete_limit |-> delete_limit, remaining |-> r.delete_limit,
     tx_opened |-> TRUE, calls |-> r.calls, stats |-> r.stats,
     events |-> <<>>]

Run(tip_block_number, fault) ==
    /\ op' = "run"
    /\ gate' = [tip |-> 0, result |-> FALSE]
    /\ UNCHANGED cfg
    /\ IF tip_block_number = 0
       THEN /\ previous_tip_block_number' = Some(tip_block_number)
            /\ last' = GenesisRun(previous_tip_block_number)
            /\ UNCHANGED <<db, highest_target>>
       ELSE
       LET delete_limit ==
               cfg.delete_limit * blocks_since_last_run(previous_tip_block_number,
                                      tip_block_number, cfg.prune_max_blocks_per_run)
       IN
       IF fault.at = "provider_rw"
       THEN /\ previous_tip_block_number' =
                   previous_tip_on_error(previous_tip_block_number, tip_block_number)
            /\ last' = [NoRun EXCEPT !.tip = tip_block_number,
                                     !.previous_tip = previous_tip_block_number,
                                     !.result = "error",
                                     !.error = "provider_rw",
                                     !.delete_limit = delete_limit,
                                     !.remaining = delete_limit]
            /\ UNCHANGED <<db, highest_target>>
       ELSE \E r \in {prune_segments(db, tip_block_number, delete_limit, fault)} :
            IF r.err # "none"
            THEN /\ previous_tip_block_number' =
                        previous_tip_on_error(previous_tip_block_number, tip_block_number)
                 /\ last' = Failed(tip_block_number, previous_tip_block_number,
                                    delete_limit, r.err, r)
                 /\ db' = rollback(db, r.tx)
                 /\ UNCHANGED highest_target
            ELSE IF fault.at = "commit"
            THEN /\ previous_tip_block_number' =
                        previous_tip_on_error(previous_tip_block_number, tip_block_number)
                 /\ last' = Failed(tip_block_number, previous_tip_block_number,
                                    delete_limit, "commit", r)
                 /\ db' = rollback(db, r.tx)
                 /\ UNCHANGED highest_target
            ELSE /\ db' = r.tx
                 /\ highest_target' = highest_targets(highest_target, r.calls)
                 /\ previous_tip_block_number' =
                        previous_tip_on_success(previous_tip_block_number,
                                                tip_block_number, from_done(r.done))
                 /\ last' = [tip |-> tip_block_number,
                             previous_tip |-> previous_tip_block_number,
                             result |-> from_done(r.done),
                             error |-> "none", delete_limit |-> delete_limit,
                             remaining |-> r.delete_limit, tx_opened |-> TRUE,
                             calls |-> r.calls, stats |-> r.stats,
                             events |-> <<[tip_block_number |-> tip_block_number,
                                           stats |-> r.stats]>>]

\* ------------------------------------------------ Pruner::is_pruning_needed
\* is_pruning_needed with a wrapping subtraction: a regressed tip gives a
\* huge delta.
is_pruning_needed_wrapping(previous_tip, tip_block_number, min_block_interval) ==
    IF IsSome(previous_tip)
    THEN IF tip_block_number < Unwrap(previous_tip)
         THEN TRUE
         ELSE tip_block_number - Unwrap(previous_tip) >= min_block_interval
    ELSE TRUE

\* is_pruning_needed with > in place of >=.
is_pruning_needed_strict(previous_tip, tip_block_number, min_block_interval) ==
    IF IsSome(previous_tip)
    THEN saturating_sub(tip_block_number, Unwrap(previous_tip)) > min_block_interval
    ELSE TRUE

\* is_pruning_needed that treats an unset previous tip as tip 0.
is_pruning_needed_unset_zero(previous_tip, tip_block_number, min_block_interval) ==
    IF IsSome(previous_tip)
    THEN saturating_sub(tip_block_number, Unwrap(previous_tip)) >= min_block_interval
    ELSE tip_block_number >= min_block_interval

is_pruning_needed(previous_tip, tip_block_number, min_block_interval) ==
    IF IsSome(previous_tip)
    THEN saturating_sub(tip_block_number, Unwrap(previous_tip)) >= min_block_interval
    ELSE TRUE

\* IsPruningNeeded that records the tip it was asked about.
IsPruningNeeded_records(tip_block_number) ==
    /\ op' = "is_pruning_needed"
    /\ gate' = [tip |-> tip_block_number,
                result |-> is_pruning_needed(previous_tip_block_number, tip_block_number,
                                             cfg.min_block_interval)]
    /\ last' = NoRun
    /\ previous_tip_block_number' = Some(tip_block_number)
    /\ UNCHANGED <<cfg, db, highest_target>>

IsPruningNeeded(tip_block_number) ==
    /\ op' = "is_pruning_needed"
    /\ gate' = [tip |-> tip_block_number,
                result |-> is_pruning_needed(previous_tip_block_number, tip_block_number,
                                             cfg.min_block_interval)]
    /\ last' = NoRun
    /\ UNCHANGED <<cfg, previous_tip_block_number, db, highest_target>>

\* ------------------------------------------------------------ configuration
\* The deployments the model is run with: the configured segments and what
\* the snapshot provider reports as highest snapshot blocks.
Deployment(segments, snapshot_provider) ==
    [segments |-> segments, snapshot_provider |-> snapshot_provider]

Deployments ==
    { Deployment(<<>>, None),
      Deployment(<<Seg("Headers", Some(Distance(1))), Seg("Receipts", Some(Full))>>,
                 Some([Headers |-> Some(2), Transactions |-> None, Receipts |-> Some(1)])),
      Deployment(<<Seg("Transactions", None), Seg("Receipts", Some(Distance(2)))>>,
                 None),
      Deployment(<<Seg("Transactions", Some(Full)), Seg("Headers", Some(Unsupported)),
                   Seg("Receipts", Some(Full))>>,
                 Some([Headers |-> None, Transactions |-> Some(1), Receipts |-> None])) }

\* Pruner::new
new(deployment, min_block_interval, delete_limit, prune_max_blocks_per_run) ==
    [segments |-> deployment.segments,
     snapshot_provider |-> deployment.snapshot_provider,
     min_block_interval |-> min_block_interval,
     delete_limit |-> delete_limit,
     prune_max_blocks_per_run |-> prune_max_blocks_per_run]

\* The failures that can be injected into a run: opening or committing the
\* transaction, or a store or segment call made for the i-th segment.
Faults ==
    {NoFault, [at |-> "provider_rw", idx |-> 0], [at |-> "commit", idx |-> 0]}
    \cup [at : {"get_prune_checkpoint", "prune", "save_checkpoint"},
          idx : 1..Len(snapshot_segments(cfg.snapshot_provider) \o cfg.segments)]

\* A fresh pruner over a fresh store.
Fresh ==
    /\ previous_tip_block_number = None
    /\ db = [checkpoints |-> [s \in PruneSegment |-> None],
             rows |-> [s \in PruneSegment |-> Blocks]]
    /\ last = NoRun
    /\ gate = [tip |-> 0, result |-> FALSE]
    /\ op = "init"
    /\ highest_target = [s \in PruneSegment |-> None]

\* The budget parameters (delete_limit, prune_max_blocks_per_run) the model is
\* run with: every delete_limit under the largest cap, every cap under
\* delete_limit 1.
Budgets ==
    {<<l, MaxBlocksPerRun>> : l \in 0..MaxDeleteLimit}
    \cup {<<1, m>> : m \in 0..MaxBlocksPerRun}

Init ==
    /\ \E d \in Deployments, b \in Budgets : cfg = new(d, 1, b[1], b[2])
    /\ Fresh

Next ==
    \/ \E tip_block_number \in 0..MaxTip, fault \in Faults : Run(tip_block_number, fault)
    \/ \E tip_block_number \in 0..MaxTip : IsPruningNeeded(tip_block_number)

Spec == Init /\ [][Next]_vars

\* Scheduling-gate configurations: every min_block_interval over one
\* deployment.
DeploymentWithSnapshots ==
    Deployment(<<Seg("Headers", Some(Distance(1))), Seg("Receipts", Some(Full))>>,
               Some([Headers |-> Some(2), Transactions |-> None, Receipts |-> Some(1)]))

InitGate ==
    /\ \E i \in 0..MaxInterval :
          cfg = new(DeploymentWithSnapshots, i, 1, MaxBlocksPerRun)
    /\ Fresh

SpecGate == InitGate /\ [][Next]_vars

\* ================================================================ properties
\* The chained segment list of a run.
AllSegments == snapshot_segments(cfg.snapshot_provider) \o cfg.segments

\* The target block of a segment at a tip, if it has one.
Target(segment, tip) ==
    IF IsSome(segment.mode)
       /\ ~prune_target_block(Unwrap(segment.mode), tip, segment.segment).err
       /\ IsSome(prune_target_block(Unwrap(segment.mode), tip, segment.segment).val)
    THEN Some(Unwrap(prune_target_block(Unwrap(segment.mode), tip, segment.segment).val)[1])
    ELSE None

\* The segment has blocks up to its target that the store has not pruned yet.
Residual(store, segment, tip) ==
    /\ IsSome(Target(segment, tip))
    /\ \/ ~IsSome(store.checkpoints[segment.segment])
       \/ Unwrap(store.checkpoints[segment.segment]).block_number < Unwrap(Target(segment, tip))

NoResidual(store, tip) ==
    \A i \in 1..Len(AllSegments) : ~Residual(store, AllSegments[i], tip)

Succeeded(run) == run.result \in {"Finished", "HasMoreData"}

\* The run failed opening or committing the transaction.
StoreFailure(run) == run.error \in {"provider_rw", "commit"}

\* C1: a run in which a checkpoint read, a segment's prune, a save_checkpoint,
\* the policy evaluation, the opening of the transaction or the commit fails
\* returns an error and leaves the durable store (rows and checkpoints of
\* every segment) exactly as it was before the run.
C1_ErrorAtomicity ==
    [][(op' = "run" /\ last'.error # "none")
          => (last'.result = "error" /\ db' = db)]_vars

\* A run failed in a segment's prune after an earlier segment had deleted rows
\* and saved a checkpoint in the same transaction.
C1_Witness ==
    /\ op = "run"
    /\ last.result = "error"
    /\ last.error = "prune"
    /\ \E i \in 1..Len(last.calls) :
          last.calls[i].output.pruned > 0 /\ IsSome(last.calls[i].output.checkpoint)

\* C2: a successful run with tip T2 > 0 that follows a successful run with tip
\* T1, T2 >= T1 > 0, computes delete_limit = base * min(T2 - T1, max blocks),
\* hands that limit to the first segment it calls and leaves
\* previous_tip_block_number = T2; with no previous tip the multiplier is
\* min(1, max blocks).
C2_Budget ==
    (op = "run" /\ Succeeded(last) /\ last.tip > 0)
    => /\ previous_tip_block_number = Some(last.tip)
       /\ (IsSome(last.previous_tip) /\ Unwrap(last.previous_tip) > 0
             /\ last.tip >= Unwrap(last.previous_tip))
          => last.delete_limit =
                cfg.delete_limit * Min(last.tip - Unwrap(last.previous_tip),
                                       cfg.prune_max_blocks_per_run)
       /\ ~IsSome(last.previous_tip)
          => last.delete_limit = cfg.delete_limit * Min(1, cfg.prune_max_blocks_per_run)
       /\ last.calls # <<>> => last.calls[1].input.delete_limit = last.delete_limit

\* A successful second run whose tip advanced by more blocks than
\* prune_max_blocks_per_run and that called a segment.
C2_Witness ==
    /\ op = "run"
    /\ Succeeded(last)
    /\ IsSome(last.previous_tip)
    /\ Unwrap(last.previous_tip) > 0
    /\ last.tip - Unwrap(last.previous_tip) > cfg.prune_max_blocks_per_run
    /\ cfg.prune_max_blocks_per_run > 0
    /\ last.calls # <<>>
    /\ last.calls[1].input.delete_limit = cfg.delete_limit * cfg.prune_max_blocks_per_run

\* C3: a run with a tip T > 0 lower than the recorded previous tip has delete
\* limit 0, calls no segment and changes neither rows nor checkpoints; unless
\* opening or committing the transaction fails it returns Finished and
\* records T as previous_tip_block_number.
C3_RegressionSafety ==
    [][(op' = "run" /\ last'.tip > 0 /\ IsSome(previous_tip_block_number)
          /\ last'.tip < Unwrap(previous_tip_block_number))
       => /\ last'.delete_limit = 0
          /\ last'.calls = <<>>
          /\ db' = db
          /\ last'.error \in {"none", "provider_rw", "commit"}
          /\ ~StoreFailure(last')
             => /\ last'.result = "Finished"
                /\ previous_tip_block_number' = Some(last'.tip)]_vars

\* A successful run on a regressed tip, with a budget configuration that
\* would have given a positive limit and a segment that has residual work.
C3_Witness ==
    /\ op = "run"
    /\ last.tip > 0
    /\ IsSome(last.previous_tip)
    /\ last.tip < Unwrap(last.previous_tip)
    /\ last.result = "Finished"
    /\ cfg.delete_limit > 0
    /\ cfg.prune_max_blocks_per_run > 0
    /\ ~NoResidual(db, last.tip)
    /\ previous_tip_block_number = Some(last.tip)

\* C4: a run that had a budget and called a segment returns Finished only if
\* no segment with a target for its tip is left with residual work, and
\* returns HasMoreData whenever some segment is.
C4_FinishedMeansNoResidual ==
    (op = "run" /\ Succeeded(last) /\ last.delete_limit > 0 /\ last.calls # <<>>)
    => (last.result = "Finished" <=> NoResidual(db, last.tip))

\* C5: a run that returns an error leaves previous_tip_block_number as it was
\* before the call.
C5_ErrorKeepsPreviousTip ==
    [][(op' = "run" /\ last'.result = "error")
          => previous_tip_block_number' = previous_tip_block_number]_vars

\* A failed run with a tip different from the recorded previous tip.
C5_Witness ==
    /\ op = "run"
    /\ last.result = "error"
    /\ IsSome(previous_tip_block_number)
    /\ previous_tip_block_number = last.previous_tip
    /\ last.tip > Unwrap(previous_tip_block_number)

\* C6: a configuration error raised by the policy evaluation of one segment
\* does not fail the run.
C6_ConfigErrorConfined ==
    op = "run" => last.error # "prune_target_block"

\* C7: is_pruning_needed called with a tip below the recorded previous tip
\* returns true.
C7_RegressedTipSchedules ==
    (op = "is_pruning_needed" /\ IsSome(previous_tip_block_number)
        /\ gate.tip < Unwrap(previous_tip_block_number))
    => gate.result

\* C7 as amended: with a tip below the recorded previous tip the saturated
\* delta is 0, so is_pruning_needed returns true exactly when
\* min_block_interval is 0.
C7_RegressedTipAmended ==
    (op = "is_pruning_needed" /\ IsSome(previous_tip_block_number)
        /\ gate.tip < Unwrap(previous_tip_block_number))
    => (gate.result <=> cfg.min_block_interval = 0)

\* is_pruning_needed refused a regressed tip under a positive interval.
C7_Witness ==
    /\ op = "is_pruning_needed"
    /\ IsSome(previous_tip_block_number)
    /\ gate.tip < Unwrap(previous_tip_block_number)
    /\ cfg.min_block_interval > 0
    /\ ~gate.result

\* C8: with a recorded previous tip P and a tip T >= P, is_pruning_needed
\* returns true exactly when T - P >= min_block_interval.
C8_AdvancedTip ==
    (op = "is_pruning_needed" /\ IsSome(previous_tip_block_number)
        /\ gate.tip >= Unwrap(previous_tip_block_number))
    => (gate.result <=>
          gate.tip - Unwrap(previous_tip_block_number) >= cfg.min_block_interval)

\* is_pruning_needed accepted the tip exactly min_block_interval above P.
C8_Witness ==
    /\ op = "is_pruning_needed"
    /\ IsSome(previous_tip_block_number)
    /\ cfg.min_block_interval > 0
    /\ gate.tip = Unwrap(previous_tip_block_number) + cfg.min_block_interval
    /\ gate.result

\* C9: with no previous tip recorded, is_pruning_needed returns true for every
\* tip and every min_block_interval.
C9_FreshPrunerSchedules ==
    (op = "is_pruning_needed" /\ ~IsSome(previous_tip_block_number))
    => gate.result

\* A fresh pruner with a positive interval accepted tip 0.
C9_Witness ==
    /\ op = "is_pruning_needed"
    /\ ~IsSome(previous_tip_block_number)
    /\ gate.tip = 0
    /\ cfg.min_block_interval > 0
    /\ gate.result

\* C10: after a successful run(T) that left no segment short of its target,
\* the run returned Finished, and a second run(T) changes neither rows nor
\* checkpoints, calls no segment and, unless opening or committing the
\* transaction fails, returns Finished.
C10_Idempotence ==
    [][(op = "run" /\ Succeeded(last) /\ NoResidual(db, last.tip)
          /\ previous_tip_block_number = Some(last.tip)
          /\ op' = "run" /\ last'.tip = last.tip)
       => /\ last.result = "Finished"
          /\ db' = db
          /\ \A i \in 1..Len(last'.calls) : last'.calls[i].output.pruned = 0
          /\ ~StoreFailure(last') => last'.result = "Finished"]_vars

\* The second of two runs with the same tip > 0, over a store in which a
\* segment has a target and every such segment has reached it.
C10_Witness ==
    /\ op = "run"
    /\ last.tip > 0
    /\ last.previous_tip = Some(last.tip)
    /\ last.result = "Finished"
    /\ NoResidual(db, last.tip)
    /\ \E i \in 1..Len(AllSegments) : IsSome(Target(AllSegments[i], last.tip))
    /\ \E s \in PruneSegment : IsSome(db.checkpoints[s])

\* The rows the first n calls of a run reported as pruned.
RECURSIVE PrunedBy(_, _)
PrunedBy(calls, n) ==
    IF n = 0 THEN 0 ELSE PrunedBy(calls, n - 1) + calls[n].output.pruned

\* The rows a store holds, over all segments.
RECURSIVE RowCount(_, _)
RowCount(store, segments) ==
    IF segments = {} THEN 0
    ELSE LET s == CHOOSE x \in segments : TRUE
         IN Cardinality(store.rows[s]) + RowCount(store, segments \ {s})

\* C11: in a run, each called segment is handed the run's initial delete
\* limit less the rows pruned by the segments called before it (saturating at
\* zero), no call prunes more than the limit it was handed, and the rows
\* pruned by all calls together, which are the rows the run removes from the
\* store when it commits, are at most the initial delete limit.
C11_SharedBudget ==
    [][(op' = "run" /\ last'.tx_opened)
       => /\ \A i \in 1..Len(last'.calls) :
                /\ last'.calls[i].input.delete_limit =
                      saturating_sub(last'.delete_limit, PrunedBy(last'.calls, i - 1))
                /\ last'.calls[i].output.pruned <= last'.calls[i].input.delete_limit
          /\ PrunedBy(last'.calls, Len(last'.calls)) <= last'.delete_limit
          /\ last'.remaining =
                saturating_sub(last'.delete_limit, PrunedBy(last'.calls, Len(last'.calls)))
          /\ Succeeded(last')
             => RowCount(db, PruneSegment) - RowCount(db', PruneSegment)
                   = PrunedBy(last'.calls, Len(last'.calls))]_vars

\* A committed run in which a second segment was called with what the first
\* one left of the budget, and pruned with it.
C11_Witness ==
    /\ op = "run"
    /\ Succeeded(last)
    /\ Len(last.calls) >= 2
    /\ last.calls[1].output.pruned > 0
    /\ last.calls[2].input.delete_limit = last.delete_limit - last.calls[1].output.pruned
    /\ last.calls[2].output.pruned > 0

\* C12: every checkpoint a run saves for a segment has a block_number at most
\* the target block computed for that segment from the tip of that run.
C12_CheckpointWithinTarget ==
    (op = "run" /\ last.tx_opened)
    => \A i \in 1..Len(last.calls) :
          IsSome(last.calls[i].saved)
          => /\ IsSome(Target(AllSegments[last.calls[i].idx], last.tip))
             /\ Unwrap(last.calls[i].saved).block_number
                   <= Unwrap(Target(AllSegments[last.calls[i].idx], last.tip))

\* A committed run saved a checkpoint below the target of its segment and one
\* at the target of its segment.
C12_Witness ==
    /\ op = "run"
    /\ Succeeded(last)
    /\ \E i \in 1..Len(last.calls) :
          /\ IsSome(last.calls[i].saved)
          /\ Unwrap(last.calls[i].saved).block_number < last.calls[i].input.to_block
    /\ \E i \in 1..Len(last.calls) :
          /\ IsSome(last.calls[i].saved)
          /\ Unwrap(last.calls[i].saved).block_number = last.calls[i].input.to_block
          /\ db.checkpoints[last.calls[i].segment] = last.calls[i].saved

\* The most recent target block a committed run computed for segment s, when
\* the latest run computed one.
RecentTarget(run, s) ==
    LET of_s == {i \in 1..Len(run.calls) : run.calls[i].segment = s}
    IN IF of_s = {} THEN None
       ELSE Some(run.calls[CHOOSE i \in of_s : \A j \in of_s : j <= i].target)

\* C13: after a committed run, the durable checkpoint of a segment is not
\* above the most recent target block computed for that segment.
C13_CheckpointWithinRecentTarget ==
    (op = "run" /\ Succeeded(last))
    => \A s \in PruneSegment :
          (IsSome(db.checkpoints[s]) /\ IsSome(RecentTarget(last, s)))
          => Unwrap(db.checkpoints[s]).block_number <= Unwrap(RecentTarget(last, s))

\* C13 as amended: the durable checkpoint of a segment is never above the
\* highest target block the committed runs have computed for that segment.
C13_CheckpointWithinHighestTarget ==
    \A s \in PruneSegment :
        IsSome(db.checkpoints[s])
        => /\ IsSome(highest_target[s])
           /\ Unwrap(db.checkpoints[s]).block_number <= Unwrap(highest_target[s])

\* A committed run computed, for a segment, a target below the checkpoint the
\* store holds for it.
C13_Witness ==
    /\ op = "run"
    /\ Succeeded(last)
    /\ \E s \in PruneSegment :
          /\ IsSome(db.checkpoints[s])
          /\ IsSome(RecentTarget(last, s))
          /\ Unwrap(db.checkpoints[s]).block_number > Unwrap(RecentTarget(last, s))
          /\ Unwrap(db.checkpoints[s]).block_number <= Unwrap(highest_target[s])

\* C14: previous_tip_block_number starts unset; a run that returns
\* successfully sets it to that run's tip whatever its progress, and nothing
\* else changes it, so it always is the tip of the most recent successful run.
C14_PreviousTipIsLastSuccess ==
    /\ previous_tip_block_number = None
    /\ [][IF op' = "run" /\ Succeeded(last')
          THEN previous_tip_block_number' = Some(last'.tip)
          ELSE previous_tip_block_number' = previous_tip_block_number]_vars

\* A run with a tip above 0 returned partial progress and moved the recorded
\* tip to its own.
C14_Witness ==
    /\ op = "run"
    /\ last.result = "HasMoreData"
    /\ last.tip > 0
    /\ IsSome(last.previous_tip)
    /\ last.previous_tip # Some(last.tip)
    /\ previous_tip_block_number = Some(last.tip)

\* C15: run(0) records tip 0 and returns Finished; it opens no transaction,
\* calls no segment, leaves rows and checkpoints as they are and emits no
\* event, whatever tip was recorded before.
C15_GenesisRun ==
    [][(op' = "run" /\ last'.tip = 0)
       => /\ previous_tip_block_number' = Some(0)
          /\ last'.result = "Finished"
          /\ ~last'.tx_opened
          /\ last'.calls = <<>>
          /\ last'.stats = <<>>
          /\ last'.events = <<>>
          /\ db' = db]_vars

\* run(0) on a pruner that had recorded a tip above 0, with work left in the
\* store for that tip.
C15_Witness ==
    /\ op = "run"
    /\ last.tip = 0
    /\ last.result = "Finished"
    /\ IsSome(last.previous_tip)
    /\ Unwrap(last.previous_tip) > 0
    /\ ~NoResidual(db, Unwrap(last.previous_tip))
    /\ previous_tip_block_number = Some(0)

\* C16: a run with a tip above 0 that returns successfully has emitted exactly
\* one Finished event, with its own tip and its own statistics, and the event
\* exists only for a run whose transaction was committed; a run that returns
\* an error has emitted none.
C16_FinishedEvent ==
    op = "run"
    => /\ (Succeeded(last) /\ last.tip > 0)
          => last.events = <<[tip_block_number |-> last.tip, stats |-> last.stats]>>
       /\ last.events # <<>> => (Succeeded(last) /\ last.tx_opened)
       /\ last.result = "error" => last.events = <<>>

\* A committed run that pruned rows emitted its event with the statistics of
\* its segments.
C16_Witness ==
    /\ op = "run"
    /\ Succeeded(last)
    /\ last.tip > 0
    /\ Len(last.events) = 1
    /\ last.events[1].tip_block_number = last.tip
    /\ last.events[1].stats # <<>>
    /\ \E i \in 1..Len(last.calls) : last.calls[i].output.pruned > 0

\* Rows pruned by the calls 1..n of a run for segment s.
RECURSIVE PrunedOf(_, _, _)
PrunedOf(calls, n, s) ==
    IF n = 0 THEN 0
    ELSE PrunedOf(calls, n - 1, s)
         + (IF calls[n].segment = s THEN calls[n].output.pruned ELSE 0)

\* C17: the statistics of a committed run report, for every segment that was
\* pruned, the rows deleted by all the calls for that segment together, and
\* Finished only when every one of those calls was done.
C17_StatsAggregated ==
    (op = "run" /\ Succeeded(last))
    => \A s \in PruneSegment :
          LET of_s == {i \in 1..Len(last.calls) : last.calls[i].segment = s}
          IN of_s # {}
             => /\ s \in DOMAIN last.stats
                /\ last.stats[s][2] = PrunedOf(last.calls, Len(last.calls), s)
                /\ last.stats[s][1] = "Finished"
                   => \A i \in of_s : last.calls[i].output.done

\* C18: a call of is_pruning_needed changes neither the recorded tip nor the
\* store nor the configuration and emits no event, and a call that follows
\* another call with the same tip returns the same answer.
C18_GateHasNoSideEffects ==
    [][op' = "is_pruning_needed"
       => /\ previous_tip_block_number' = previous_tip_block_number
          /\ db' = db
          /\ cfg' = cfg
          /\ last'.events = <<>>
          /\ (op = "is_pruning_needed" /\ gate'.tip = gate.tip)
             => gate'.result = gate.result]_vars

\* is_pruning_needed answered false on a pruner that has recorded a tip and
\* whose store holds a checkpoint.
C18_Witness ==
    /\ op = "is_pruning_needed"
    /\ ~gate.result
    /\ IsSome(previous_tip_block_number)
    /\ gate.tip > Unwrap(previous_tip_block_number)
    /\ \E s \in PruneSegment : IsSome(db.checkpoints[s])

\* The segments the snapshot provider reports a highest block for, in the
\* order Headers, Transactions, Receipts.
Reported ==
    LET reports(s) == IsSome(Unwrap(cfg.snapshot_provider)[s])
    IN IF IsSome(cfg.snapshot_provider)
       THEN SelectSeq(<<"Headers", "Transactions", "Receipts">>, reports)
       ELSE <<>>

\* C19: the calls of a run follow the chained list: first one segment for
\* each of Headers, Transactions, Receipts the snapshot provider reports a
\* highest block B for, in that order and with target B under the mode
\* before_inclusive(B), then the configured segments in their configured
\* order; no reported segment is passed over while budget is left.
C19_SegmentOrder ==
    op = "run"
    => /\ \A i \in 1..Len(last.calls) :
             LET c == last.calls[i]
             IN /\ i > 1 => last.calls[i - 1].idx < c.idx
                /\ IF c.idx <= Len(Reported)
                   THEN /\ c.segment = Reported[c.idx]
                        /\ c.target = Unwrap(Unwrap(cfg.snapshot_provider)[c.segment])
                        /\ IsSome(c.saved)
                           => Unwrap(c.saved).prune_mode = before_inclusive(c.target)
                   ELSE /\ c.idx - Len(Reported) \in 1..Len(cfg.segments)
                        /\ c.segment = cfg.segments[c.idx - Len(Reported)].segment
                        /\ IsSome(cfg.segments[c.idx - Len(Reported)].mode)
                        /\ IsSome(c.saved)
                           => Unwrap(c.saved).prune_mode
                              = Unwrap(cfg.segments[c.idx - Len(Reported)].mode)
       /\ (Succeeded(last) /\ last.tip > 0)
          => \A k \in 1..Len(Reported) :
                \/ \E i \in 1..Len(last.calls) : last.calls[i].idx = k
                \/ /\ last.remaining = 0
                   /\ \A i \in 1..Len(last.calls) : last.calls[i].idx < k

\* A committed run called two snapshot segments and then a configured
\* segment.
C19_Witness ==
    /\ op = "run"
    /\ Succeeded(last)
    /\ Len(Reported) = 2
    /\ Len(last.calls) >= 3
    /\ last.calls[1].idx = 1
    /\ last.calls[2].idx = 2
    /\ last.calls[3].idx > Len(Reported)

\* C20: the progress of a run that returns successfully is HasMoreData
\* exactly when one of the segments it called reported done = FALSE; segments
\* that were not called do not count, so a run without calls is Finished.
C20_ProgressIsConjunction ==
    (op = "run" /\ Succeeded(last))
    => /\ last.result = "HasMoreData"
          <=> \E i \in 1..Len(last.calls) : ~last.calls[i].output.done
       /\ last.calls = <<>> => last.result = "Finished"

\* A committed run returned HasMoreData after a segment that was done and a
\* segment that was not.
C20_Witness ==
    /\ op = "run"
    /\ last.result = "HasMoreData"
    /\ \E i, j \in 1..Len(last.calls) :
          /\ last.calls[i].output.done
          /\ ~last.calls[j].output.done

\* The segment has no mode, or its mode gives no target block at the tip.
Skipped(segment, tip) ==
    \/ ~IsSome(segment.mode)
    \/ /\ ~prune_target_block(Unwrap(segment.mode), tip, segment.segment).err
       /\ ~IsSome(prune_target_block(Unwrap(segment.mode), tip, segment.segment).val)

\* C21: in a run that opened its transaction, a segment without mode or
\* without target block at the run's tip is not called; when every segment of
\* a category is skipped, the category's checkpoint and rows are as before
\* the run and the statistics have no entry for it; when every segment is
\* skipped, nothing is called, the budget is untouched and the run, unless
\* the store fails it, returns Finished.
C21_SkippedSegment ==
    [][(op' = "run" /\ last'.tx_opened)
       => /\ \A i \in 1..Len(AllSegments) :
                Skipped(AllSegments[i], last'.tip)
                => \A j \in 1..Len(last'.calls) : last'.calls[j].idx # i
          /\ \A s \in PruneSegment :
                (\A i \in 1..Len(AllSegments) :
                    AllSegments[i].segment = s => Skipped(AllSegments[i], last'.tip))
                => /\ s \notin DOMAIN last'.stats
                   /\ db'.checkpoints[s] = db.checkpoints[s]
                   /\ db'.rows[s] = db.rows[s]
          /\ (\A i \in 1..Len(AllSegments) : Skipped(AllSegments[i], last'.tip))
             => /\ last'.calls = <<>>
                /\ last'.stats = <<>>
                /\ last'.remaining = last'.delete_limit
                /\ db' = db
                /\ ~StoreFailure(last') => last'.result = "Finished"]_vars

\* A committed run with budget skipped its only segments: one without mode
\* and one whose Distance mode has no target block at the tip yet.
C21_Witness ==
    /\ op = "run"
    /\ last.result = "Finished"
    /\ last.tx_opened
    /\ last.delete_limit > 0
    /\ last.calls = <<>>
    /\ \E i, j \in 1..Len(AllSegments) :
          /\ ~IsSome(AllSegments[i].mode)
          /\ IsSome(AllSegments[j].mode)
          /\ Unwrap(AllSegments[j].mode).kind = "Distance"
          /\ Skipped(AllSegments[j], last.tip)

\* The errors raised inside the loop of prune_segments.
LoopErrors == {"prune_target_block", "get_prune_checkpoint", "prune", "save_checkpoint"}

\* C22: no segment is called with delete_limit = 0; a call that uses up the
\* budget is the last call of its run; with the budget at 0 no later
\* segment's policy is evaluated (no error comes from the loop), and a
\* segment that is not called leaves no statistics entry and, unless another
\* segment of its category is called, the category's checkpoint and rows as
\* they were; a run that starts with budget 0 calls nothing.
C22_BudgetExhaustionStops ==
    [][(op' = "run" /\ last'.tx_opened)
       => /\ \A j \in 1..Len(last'.calls) :
                /\ last'.calls[j].input.delete_limit > 0
                /\ j < Len(last'.calls)
                   => last'.calls[j].output.pruned < last'.calls[j].input.delete_limit
          /\ last'.error \in LoopErrors => last'.remaining > 0
          /\ \A s \in PruneSegment :
                (\A j \in 1..Len(last'.calls) : last'.calls[j].segment # s)
                => /\ s \notin DOMAIN last'.stats
                   /\ db'.checkpoints[s] = db.checkpoints[s]
                   /\ db'.rows[s] = db.rows[s]
          /\ last'.delete_limit = 0
             => /\ last'.calls = <<>>
                /\ last'.stats = <<>>
                /\ db' = db
                /\ last'.error \notin LoopErrors]_vars

\* A committed run whose last call used up the budget left alone a later
\* segment that has a target block and unpruned blocks up to it.
C22_Witness ==
    /\ op = "run"
    /\ Succeeded(last)
    /\ last.remaining = 0
    /\ Len(last.calls) >= 1
    /\ \E i \in 1..Len(AllSegments) :
          /\ i > last.calls[Len(last.calls)].idx
          /\ Residual(db, AllSegments[i], last.tip)
          /\ AllSegments[i].segment \notin DOMAIN last.stats

\* The calls of a run for segment s that returned a checkpoint.
Savers(run, s) ==
    {j \in 1..Len(run.calls) :
        run.calls[j].segment = s /\ IsSome(run.calls[j].output.checkpoint)}

\* C23: after a committed run the stored checkpoint of a segment is the one
\* it held before the run when no call for the segment returned a checkpoint,
\* and otherwise the checkpoint returned by the latest call that returned
\* one, under the mode of the segment that returned it; a call that returns
\* no checkpoint changes nothing.
C23_CheckpointWrittenWhenReturned ==
    [][(op' = "run" /\ Succeeded(last') /\ last'.tx_opened)
       => \A s \in PruneSegment :
             IF Savers(last', s) = {}
             THEN db'.checkpoints[s] = db.checkpoints[s]
             ELSE LET j == CHOOSE k \in Savers(last', s) :
                               \A l \in Savers(last', s) : l <= k
                      c == last'.calls[j]
                  IN db'.checkpoints[s] =
                        Some([block_number |-> Unwrap(c.output.checkpoint).block_number,
                              prune_mode |-> Unwrap(AllSegments[c.idx].mode)])]_vars

\* A committed run in which one call returned a checkpoint that the store now
\* holds, and a later call for the same segment returned none.
C23_Witness ==
    /\ op = "run"
    /\ Succeeded(last)
    /\ \E j, k \in 1..Len(last.calls) :
          /\ j < k
          /\ last.calls[j].segment = last.calls[k].segment
          /\ IsSome(last.calls[j].output.checkpoint)
          /\ ~IsSome(last.calls[k].output.checkpoint)
          /\ Unwrap(db.checkpoints[last.calls[j].segment]).block_number
             = Unwrap(last.calls[j].output.checkpoint).block_number

\* ------------------------------------------------ run-after-run schedule
\* Deployments whose targets do not move with the tip: snapshot segments and
\* configured segments that keep the blocks after a fixed one.
FixedTargetDeployments ==
    { Deployment(<<Seg("Headers", Some(before_inclusive(1))), Seg("Transactions", None)>>,
                 Some([Headers |-> Some(2), Transactions |-> None, Receipts |-> Some(1)])),
      Deployment(<<Seg("Receipts", Some(before_inclusive(2))),
                   Seg("Transactions", Some(before_inclusive(3)))>>,
                 Some([Headers |-> None, Transactions |-> Some(1), Receipts |-> None])) }

\* An upper bound of the rows the segments 1..n of the chained list have to
\* prune to reach their targets.
RECURSIVE TargetRows(_)
TargetRows(n) ==
    IF n = 0 THEN 0
    ELSE TargetRows(n - 1)
         + (IF IsSome(Target(AllSegments[n], 1))
            THEN Unwrap(Target(AllSegments[n], 1)) + 1
            ELSE 0)

\* Tips enough for one run per row to prune and one more, at the largest
\* advance of the tip.
Horizon == MaxStep * (TargetRows(Len(AllSegments)) + 1)

\* run called without failure with a tip above the one of the run before.
RunNext(tip_block_number) ==
    /\ tip_block_number > (IF IsSome(previous_tip_block_number)
                           THEN Unwrap(previous_tip_block_number) ELSE 0)
    /\ Run(tip_block_number, NoFault)

InitLive ==
    /\ \E d \in FixedTargetDeployments,
          l \in 1..MaxDeleteLimit, m \in 1..MaxBlocksPerRun : cfg = new(d, 1, l, m)
    /\ Fresh

NextLive ==
    \E step \in 1..MaxStep :
        LET tip_block_number ==
                (IF IsSome(previous_tip_block_number)
                 THEN Unwrap(previous_tip_block_number) ELSE 0) + step
        IN tip_block_number <= Horizon /\ RunNext(tip_block_number)

\* run is called again and again.
SpecLive == InitLive /\ [][NextLive]_vars /\ WF_vars(NextLive)

\* The run visited every segment that has a target block.
VisitedAll(run) ==
    \A i \in 1..Len(AllSegments) :
        IsSome(Target(AllSegments[i], run.tip))
        => \E j \in 1..Len(run.calls) : run.calls[j].idx = i

\* C24: with run called again and again without failure, with rising tips,
\* delete_limit >= 1, prune_max_blocks_per_run >= 1 and targets that do not
\* move, a run eventually returns Finished after visiting every segment,
\* with every segment at its target.
C24_EventualCompletion ==
    <>(/\ op = "run"
       /\ last.result = "Finished"
       /\ VisitedAll(last)
       /\ NoResidual(db, last.tip))

\* A run of the schedule that used up its budget on the first segment while
\* a later segment still had blocks to prune.
C24_Witness ==
    /\ op = "run"
    /\ Succeeded(last)
    /\ IsSome(last.previous_tip)
    /\ last.remaining = 0
    /\ ~VisitedAll(last)
    /\ \E i \in 2..Len(AllSegments) : Residual(db, AllSegments[i], last.tip)

\* C25: the previous_checkpoint handed to a segment is the checkpoint of its
\* category inside the run's transaction: the one the store held before the
\* run for the first call of the category, and for a later call the one the
\* call before it for that category saved, or was handed when it saved none.
C25_CheckpointReadInTransaction ==
    [][op' = "run"
       => \A k \in 1..Len(last'.calls) :
             LET c == last'.calls[k]
                 earlier == {j \in 1..(k - 1) : last'.calls[j].segment = c.segment}
             IN IF earlier = {}
                THEN c.input.previous_checkpoint = db.checkpoints[c.segment]
                ELSE LET e == last'.calls[CHOOSE j \in earlier : \A l \in earlier : l <= j]
                     IN c.input.previous_checkpoint =
                           IF IsSome(e.saved) THEN e.saved
                           ELSE e.input.previous_checkpoint]_vars

\* In one run a snapshot segment saved a checkpoint and the configured
\* segment of the same category was handed it.
C25_Witness ==
    /\ op = "run"
    /\ \E j, k \in 1..Len(last.calls) :
          /\ last.calls[j].idx <= Len(Reported)
          /\ last.calls[k].idx > Len(Reported)
          /\ last.calls[j].segment = last.calls[k].segment
          /\ IsSome(last.calls[j].saved)
          /\ last.calls[j].saved # last.calls[j].input.previous_checkpoint
          /\ last.calls[k].input.previous_checkpoint = last.calls[j].saved

\* The block number of a stored checkpoint, below every block when there is
\* none.
CheckpointBlock(store, s) ==
    IF IsSome(store.checkpoints[s]) THEN Unwrap(store.checkpoints[s]).block_number ELSE -1

\* C26: no step, a run that commits, a run that fails or a call of
\* is_pruning_needed, lowers the block number of the stored checkpoint of a
\* segment or removes the checkpoint.
C26_CheckpointMonotonic ==
    [][\A s \in PruneSegment : CheckpointBlock(db', s) >= CheckpointBlock(db, s)]_vars

\* After a run at a regressed tip, a run visited a snapshot segment and a
\* configured segment of one category whose target is below the stored
\* checkpoint, which it kept.
C26_Witness ==
    /\ op = "run"
    /\ Succeeded(last)
    /\ IsSome(last.previous_tip)
    /\ \E j, k \in 1..Len(last.calls) :
          /\ j < k
          /\ last.calls[j].segment = last.calls[k].segment
          /\ last.calls[k].target < CheckpointBlock(db, last.calls[k].segment)

====
